---- MODULE Spec2Model ----
(***************************************************************************)
(* Stage/state transition engines of the AceFlow workflow tracker.         *)
(*                                                                         *)
(* Four programs keep a project's stage state:                             *)
(*   - the stage CLI            (aceflow-stage.py, with the project state  *)
(*     written by aceflow-init.py / aceflow-init-enhanced.py and the mode  *)
(*     change of aceflow-templates.py),                                    *)
(*   - MultiModeStateEngine     (core/multi_mode_state_engine.py),         *)
(*   - PATEOASStateEngine       (core/state_engine.py),                    *)
(*   - PATEOASStateEngineEnhanced (core/state_engine_enhanced.py).         *)
(* A project is driven by one of them; `engine` records which one.         *)
(* The token check of the web API (api/auth.py) is modelled beside them.   *)
(***************************************************************************)
EXTENDS Integers, Sequences, FiniteSets, TLC

\* ------------------------------------------------------------------ bounds
\* number of operations issued on one project
MaxOps == 3

\* the longest run of `next` commands followed: enough to walk the eight
\* stages of the complete mode and call `next` again on the last one
MaxNexts == 10

\* ------------------------------------------------------------- vocabulary
None == "None"

Range(s) == {s[i] : i \in 1..Len(s)}

\* list.index(x): position of the first occurrence (0-based); 0 - 1 stands
\* for the ValueError python raises when x is absent
IndexOf(s, x) ==
  IF x \in Range(s) THEN (CHOOSE i \in 1..Len(s) : s[i] = x /\ \A j \in 1..(i-1) : s[j] # x) - 1
  ELSE 0 - 1

\* [e for e in s if keep(e)]
RECURSIVE FilterSeq(_, _)
FilterSeq(s, keep) ==
  IF s = <<>> THEN <<>>
  ELSE IF Head(s) \in keep THEN <<Head(s)>> \o FilterSeq(Tail(s), keep)
       ELSE FilterSeq(Tail(s), keep)

\* ============================================================== stage CLI
Modes == {"minimal", "standard", "complete", "smart"}

\* a mode name an imported template may carry that no stage order knows
ImportedModes == Modes \cup {"custom"}

get_stage_order(mode) ==
  CASE mode = "minimal"  -> <<"analysis", "planning", "implementation", "validation">>
    [] mode = "standard" -> <<"user_stories", "tasks_planning", "test_design",
                              "implementation", "testing", "review">>
    [] mode = "complete" -> <<"s1_user_story", "s2_tasks_group", "s3_testcases",
                              "s4_implementation", "s5_test_report", "s6_codereview",
                              "s7_demo_script", "s8_summary_report">>
    [] mode = "smart"    -> <<"analysis", "planning", "implementation", "validation">>
    [] OTHER             -> <<>>

\* every stage id some mode knows, plus one id no mode knows
AllStageIds == UNION {Range(get_stage_order(m)) : m \in Modes}


\* aceflow-init.py
get_first_stage(mode) ==
  CASE mode = "minimal"  -> "analysis"
    [] mode = "standard" -> "user_stories"
    [] mode = "complete" -> "s1_user_story"
    [] mode = "smart"    -> "analysis"
    [] OTHER             -> "analysis"

\* aceflow-init-enhanced.py
get_first_stage_enhanced(mode) ==
  CASE mode = "minimal"  -> "requirements"
    [] mode = "standard" -> "user_stories"
    [] mode = "complete" -> "s1_user_story"
    [] mode = "smart"    -> "analysis"
    [] OTHER             -> "analysis"

\* stage_progress.json as aceflow-init.py writes it: the `else` branch
\* (minimal) also serves every mode that is none of the three named ones
initialize_stage_progress(mode) ==
  LET ids == IF mode \in {"standard", "complete", "smart"}
             THEN Range(get_stage_order(mode))
             ELSE Range(get_stage_order("minimal"))
  IN  [s \in ids |-> [status |-> "pending", progress |-> 0]]

\* int((completed_count / total_stages) * 100): the quotient is a double;
\* for the stage counts of the four modes (4, 6, 8) and every count
\* 0..total the truncated double equals the integer floor used here
Percentage(completed_count, total_stages) == (completed_count * 100) \div total_stages

\* the element after stage_order[idx] (0-based idx), or None
SuccessorAt(stage_order, idx) ==
  IF idx + 1 < Len(stage_order) THEN stage_order[idx + 2] ELSE None

\* try: stage_order.index(x) ... except ValueError: None
SuccessorOf(stage_order, x) ==
  IF x \in Range(stage_order) THEN SuccessorAt(stage_order, IndexOf(stage_order, x))
  ELSE None

VARIABLES
  engine,          \* which program drives the project
  nops,            \* operations issued so far
  last,            \* the last operation issued: [op, arg, val, ok, rep]
  ordRun,          \* stage CLI: length of the run "fresh project, then the
                   \* mode's stages completed in order and nothing else", or -1
  project_mode,    \* current_state.json: project.mode
  flow,            \* current_state.json: flow
  progress_exists, \* stage_progress.json is present
  stages,          \* stage_progress.json: stages
  mm,              \* MultiModeStateEngine: .aceflow/current_state.json
  pe,              \* PATEOASStateEngine(Enhanced): .aceflow/current_state.json
  outputs,         \* stage ids whose required output file exists and is non-empty
  abns,            \* PATEOAS current_state.json: abnormalities
  sec,             \* the wall clock, in whole seconds
  nav,             \* what the last get_navigation_suggestion call returned
  procs,           \* two processes each running one PATEOAS operation
  readable,        \* the PATEOAS state file holds a complete JSON document
  corrupt,         \* .aceflow/current_state.json of the stage CLI or of
                   \* MultiModeStateEngine is not a JSON document any more
  users,           \* API: usernames in the users table
  clock,           \* API: datetime.utcnow(), in minutes
  response         \* API: the last request to the application and its answer

stageVars == <<project_mode, flow, progress_exists, stages>>
abnVars == <<abns, sec, nav>>
vars == <<engine, nops, last, ordRun, project_mode, flow, progress_exists, stages,
          mm, pe, outputs, abns, sec, nav, procs, readable, corrupt,
          users, clock, response>>
\* what only the parts of the model about concurrency, damaged files and
\* the web API use
apiVars == <<users, clock, response>>
auxVars == <<procs, readable, corrupt, apiVars>>

\* the clock: every operation runs at a later time than the one before
now == nops + 1

\* ---- project initialisation
create_project_state(mode) ==
  [current_stage |-> "initialized", completed_stages |-> <<>>,
   next_stage |-> get_first_stage(mode), progress_percentage |-> 0]

create_project_state_enhanced(mode) ==
  [current_stage |-> "initialized", completed_stages |-> <<>>,
   next_stage |-> get_first_stage_enhanced(mode), progress_percentage |-> 0]

\* ---- the handlers, as functions from the two documents to the documents
\* they leave on disk and the value they return.  raised = an exception
\* reached run()'s handler (exit code 1) before anything was saved.
Result(ok, f, st) == [ok |-> ok, flow |-> f, stages |-> st]

SetStatus(st, s, status) ==
  IF s \in DOMAIN st THEN [st EXCEPT ![s].status = status] ELSE st

AppendOnce(seq, x) == IF x \in Range(seq) THEN seq ELSE Append(seq, x)

next_stage_counts_last(mode, f, exists, st, force, answer) ==
  LET current_stage == f.current_stage
      nxt           == f.next_stage
      stage_order   == get_stage_order(mode)
      mustAsk       == /\ current_stage # "initialized"
                       /\ current_stage \in DOMAIN st
                       /\ st[current_stage].status # "completed"
                       /\ ~force
      completed     == IF current_stage # "initialized"
                       THEN AppendOnce(f.completed_stages, current_stage)
                       ELSE f.completed_stages
  IN  IF ~exists THEN Result(FALSE, f, st)
      ELSE IF mustAsk /\ ~answer THEN Result(FALSE, f, st)
      ELSE IF Len(stage_order) = 0 THEN Result(FALSE, f, st)
      ELSE Result(TRUE,
                  [current_stage |-> IF nxt = None THEN current_stage ELSE nxt,
                   completed_stages |-> completed,
                   next_stage |-> SuccessorOf(stage_order, nxt),
                   progress_percentage |-> Percentage(Len(completed), Len(stage_order))],
                  SetStatus(st, nxt, "in_progress"))

next_stage(mode, f, exists, st, force, answer) ==
  LET current_stage == f.current_stage
      nxt           == f.next_stage
      stage_order   == get_stage_order(mode)
      mustAsk       == /\ current_stage # "initialized"
                       /\ current_stage \in DOMAIN st
                       /\ st[current_stage].status # "completed"
                       /\ ~force
      completed     == IF current_stage # "initialized"
                       THEN AppendOnce(f.completed_stages, current_stage)
                       ELSE f.completed_stages
  IN  IF ~exists THEN Result(FALSE, f, st)
      ELSE IF nxt = None THEN Result(TRUE, f, st)
      ELSE IF mustAsk /\ ~answer THEN Result(FALSE, f, st)
      ELSE IF Len(stage_order) = 0 THEN Result(FALSE, f, st)   \* ZeroDivisionError
      ELSE Result(TRUE,
                  [current_stage |-> nxt,
                   completed_stages |-> completed,
                   next_stage |-> SuccessorOf(stage_order, nxt),
                   progress_percentage |-> Percentage(Len(completed), Len(stage_order))],
                  SetStatus(st, nxt, "in_progress"))

goto_stage_marks(mode, f, exists, st, target_stage, force, answer) ==
  LET stage_order == get_stage_order(mode)
      completed   == IF f.current_stage # "initialized"
                     THEN AppendOnce(f.completed_stages, f.current_stage)
                     ELSE f.completed_stages
  IN  IF ~exists THEN Result(FALSE, f, st)
      ELSE IF target_stage \notin Range(stage_order) THEN Result(FALSE, f, st)
      ELSE IF f.current_stage = target_stage THEN Result(TRUE, f, st)
      ELSE IF ~force /\ ~answer THEN Result(FALSE, f, st)
      ELSE Result(TRUE,
                  [f EXCEPT !.current_stage = target_stage,
                            !.completed_stages = completed,
                            !.next_stage = SuccessorOf(stage_order, target_stage)],
                  SetStatus(st, target_stage, "in_progress"))

goto_stage(mode, f, exists, st, target_stage, force, answer) ==
  LET stage_order == get_stage_order(mode)
  IN  IF ~exists THEN Result(FALSE, f, st)
      ELSE IF target_stage \notin Range(stage_order) THEN Result(FALSE, f, st)
      ELSE IF f.current_stage = target_stage THEN Result(TRUE, f, st)
      ELSE IF ~force /\ ~answer THEN Result(FALSE, f, st)
      ELSE Result(TRUE,
                  [f EXCEPT !.current_stage = target_stage,
                            !.next_stage = SuccessorOf(stage_order, target_stage)],
                  SetStatus(st, target_stage, "in_progress"))

complete_stage_nodup(mode, f, exists, st, stage, force, answer) ==
  LET stage_order == get_stage_order(mode)
      completed   == Append(f.completed_stages, stage)
  IN  IF ~exists THEN Result(FALSE, f, st)
      ELSE IF stage \notin DOMAIN st THEN Result(FALSE, f, st)
      ELSE IF ~force /\ ~answer THEN Result(FALSE, f, st)
      ELSE IF Len(stage_order) = 0 THEN Result(FALSE, f, st)
      ELSE Result(TRUE,
                  [f EXCEPT !.completed_stages = completed,
                            !.progress_percentage =
                               Percentage(Len(completed), Len(stage_order))],
                  [st EXCEPT ![stage] = [status |-> "completed", progress |-> 100]])

complete_stage_stalepct(mode, f, exists, st, stage, force, answer) ==
  LET stage_order == get_stage_order(mode)
      completed   == AppendOnce(f.completed_stages, stage)
  IN  IF ~exists THEN Result(FALSE, f, st)
      ELSE IF stage \notin DOMAIN st THEN Result(FALSE, f, st)
      ELSE IF ~force /\ ~answer THEN Result(FALSE, f, st)
      ELSE IF Len(stage_order) = 0 THEN Result(FALSE, f, st)
      ELSE Result(TRUE,
                  [f EXCEPT !.completed_stages = completed,
                            !.progress_percentage =
                               Percentage(Len(f.completed_stages), Len(stage_order))],
                  [st EXCEPT ![stage] = [status |-> "completed", progress |-> 100]])

complete_stage(mode, f, exists, st, stage, force, answer) ==
  LET stage_order == get_stage_order(mode)
      completed   == AppendOnce(f.completed_stages, stage)
  IN  IF ~exists THEN Result(FALSE, f, st)
      ELSE IF stage \notin DOMAIN st THEN Result(FALSE, f, st)
      ELSE IF ~force /\ ~answer THEN Result(FALSE, f, st)
      ELSE IF Len(stage_order) = 0 THEN Result(FALSE, f, st)   \* ZeroDivisionError
      ELSE Result(TRUE,
                  [f EXCEPT !.completed_stages = completed,
                            !.progress_percentage =
                               Percentage(Len(completed), Len(stage_order))],
                  [st EXCEPT ![stage] = [status |-> "completed", progress |-> 100]])

reset_stage_stale(mode, f, exists, st, target_stage, force, answer) ==
  LET stage_order  == get_stage_order(mode)
      target_index == IndexOf(stage_order, target_stage)
      later        == {stage_order[i] : i \in (target_index + 2)..Len(stage_order)}
      before       == {stage_order[i] : i \in 1..target_index}
      completed    == FilterSeq(f.completed_stages, before)
  IN  IF ~exists THEN Result(FALSE, f, st)
      ELSE IF target_stage \notin Range(stage_order) THEN Result(FALSE, f, st)
      ELSE IF ~force /\ ~answer THEN Result(FALSE, f, st)
      ELSE IF ~(Range(f.completed_stages) \subseteq Range(stage_order))
           THEN Result(FALSE, f, st)
      ELSE Result(TRUE,
                  [current_stage |-> target_stage,
                   completed_stages |-> completed,
                   next_stage |-> SuccessorAt(stage_order, target_index),
                   progress_percentage |-> f.progress_percentage],
                  [s \in DOMAIN st |->
                     IF s \in later THEN [status |-> "pending", progress |-> 0] ELSE st[s]])

reset_stage_keeptarget(mode, f, exists, st, target_stage, force, answer) ==
  LET stage_order  == get_stage_order(mode)
      target_index == IndexOf(stage_order, target_stage)
      later        == {stage_order[i] : i \in (target_index + 2)..Len(stage_order)}
      before       == {stage_order[i] : i \in 1..(target_index + 1)}
      completed    == FilterSeq(f.completed_stages, before)
  IN  IF ~exists THEN Result(FALSE, f, st)
      ELSE IF target_stage \notin Range(stage_order) THEN Result(FALSE, f, st)
      ELSE IF ~force /\ ~answer THEN Result(FALSE, f, st)
      ELSE IF ~(Range(f.completed_stages) \subseteq Range(stage_order))
           THEN Result(FALSE, f, st)
      ELSE Result(TRUE,
                  [current_stage |-> target_stage,
                   completed_stages |-> completed,
                   next_stage |-> SuccessorAt(stage_order, target_index),
                   progress_percentage |-> Percentage(Len(completed), Len(stage_order))],
                  [s \in DOMAIN st |->
                     IF s \in later THEN [status |-> "pending", progress |-> 0] ELSE st[s]])

reset_stage_fromtarget(mode, f, exists, st, target_stage, force, answer) ==
  LET stage_order  == get_stage_order(mode)
      target_index == IndexOf(stage_order, target_stage)
      later        == {stage_order[i] : i \in (target_index + 1)..Len(stage_order)}
      before       == {stage_order[i] : i \in 1..target_index}
      completed    == FilterSeq(f.completed_stages, before)
  IN  IF ~exists THEN Result(FALSE, f, st)
      ELSE IF target_stage \notin Range(stage_order) THEN Result(FALSE, f, st)
      ELSE IF ~force /\ ~answer THEN Result(FALSE, f, st)
      ELSE IF ~(Range(f.completed_stages) \subseteq Range(stage_order))
           THEN Result(FALSE, f, st)
      ELSE Result(TRUE,
                  [current_stage |-> target_stage,
                   completed_stages |-> completed,
                   next_stage |-> SuccessorAt(stage_order, target_index),
                   progress_percentage |-> Percentage(Len(completed), Len(stage_order))],
                  [s \in DOMAIN st |->
                     IF s \in later THEN [status |-> "pending", progress |-> 0] ELSE st[s]])

reset_stage(mode, f, exists, st, target_stage, force, answer) ==
  LET stage_order  == get_stage_order(mode)
      target_index == IndexOf(stage_order, target_stage)
      later        == {stage_order[i] : i \in (target_index + 2)..Len(stage_order)}
      before       == {stage_order[i] : i \in 1..target_index}
      completed    == FilterSeq(f.completed_stages, before)
  IN  IF ~exists THEN Result(FALSE, f, st)
      ELSE IF target_stage \notin Range(stage_order) THEN Result(FALSE, f, st)
      ELSE IF ~force /\ ~answer THEN Result(FALSE, f, st)
      \* stage_order.index(s) raises ValueError for a completed id the
      \* mode's order does not hold
      ELSE IF ~(Range(f.completed_stages) \subseteq Range(stage_order))
           THEN Result(FALSE, f, st)
      ELSE Result(TRUE,
                  [current_stage |-> target_stage,
                   completed_stages |-> completed,
                   next_stage |-> SuccessorAt(stage_order, target_index),
                   progress_percentage |-> Percentage(Len(completed), Len(stage_order))],
                  [s \in DOMAIN st |->
                     IF s \in later THEN [status |-> "pending", progress |-> 0] ELSE st[s]])

\* aceflow-templates.py: only current_state.json is rewritten
update_project_mode(f, new_mode) ==
  [f EXCEPT !.current_stage = "initialized",
            !.completed_stages = <<>>,
            !.progress_percentage = 0]

\* =================================================== MultiModeStateEngine
\* class FlowMode
FlowModes == {"minimal", "standard", "complete"}

\* .aceflow/config/flow_modes.yaml, the stage catalogue the engine reads: an
\* input document.  The ids P, D, R are those of the minimal mode; D depends
\* on P and R on both, so that a stage with two dependencies exists.  The
\* standard mode splits planning in two (P1, P2) and the complete mode has
\* two stages whose names and descriptions repeat those of P and D.
StageInfo(id, nxt, deps, dels) ==
  [id |-> id, next_stage |-> nxt, dependencies |-> deps, deliverables |-> dels]

get_stages_for_mode(mode) ==
  CASE mode = "minimal" -> << StageInfo("P", "D", <<>>, <<"plan">>),
                              StageInfo("D", "R", <<"P">>, <<"code", "tests">>),
                              StageInfo("R", None, <<"P", "D">>, <<>>) >>
    [] mode = "standard" -> << StageInfo("P1", "P2", <<>>, <<"requirements">>),
                               StageInfo("P2", "D1", <<"P1">>, <<>>),
                               StageInfo("D1", None, <<"P2">>, <<"code">>) >>
    [] mode = "complete" -> << StageInfo("S1", "S2", <<>>, <<>>),
                               StageInfo("S2", None, <<"S1">>, <<>>) >>
    [] OTHER            -> << >>

\* StageInfo.name and StageInfo.description of the catalogue's stages, as the
\* sets of their lower-cased whitespace-separated words
stage_name(id) ==
  CASE id \in {"P", "S1"}  -> {"planning"}
    [] id = "P1"           -> {"planning"}
    [] id = "P2"           -> {"design"}
    [] id \in {"D", "D1", "S2"} -> {"development"}
    [] id = "R"            -> {"review"}
    [] OTHER               -> {}

stage_description(id) ==
  CASE id \in {"P", "S1"}  -> {"plan", "the", "work"}
    [] id = "P1"           -> {"plan", "the", "requirements"}
    [] id = "P2"           -> {"design", "the", "solution"}
    [] id \in {"D", "D1", "S2"} -> {"build", "and", "test"}
    [] id = "R"            -> {"review", "the", "result"}
    [] OTHER               -> {}

\* flow_modes.yaml, mode_switching.mapping_rules: for a pair of modes, the
\* target stages and for each the source stage ids its rule lists (a rule
\* with a comma lists several); pairs with the complete mode have no rule
mapping_rules(old_mode, new_mode) ==
  CASE old_mode = "minimal" /\ new_mode = "standard" ->
         << [target |-> "P1", sources |-> <<"P">>],
            [target |-> "P2", sources |-> <<"P">>],
            [target |-> "D1", sources |-> <<"D">>] >>
    [] old_mode = "standard" /\ new_mode = "minimal" ->
         << [target |-> "P", sources |-> <<"P1", "P2">>],
            [target |-> "D", sources |-> <<"D1">>] >>
    [] OTHER -> << >>

\* mapping_key in migration_rules
has_mapping(old_mode, new_mode) == Len(mapping_rules(old_mode, new_mode)) > 0

MMStageIds(mode) == {get_stages_for_mode(mode)[i].id : i \in 1..Len(get_stages_for_mode(mode))}

\* every key state['stage_states'] may get: the ids of the catalogue and an
\* id the catalogue does not hold
MMStageArgs == UNION {MMStageIds(m) : m \in FlowModes} \cup {"bogus"}

\* the stage argument of a command: a stage of the current mode or an id
\* the current mode does not know
MMStageArgsOf(mode) == MMStageIds(mode) \cup {"bogus"}

Assignees == {None, "alice"}

\* the progress values a caller passes; nothing restricts them to 0..100
ProgressArgs == <<50, 100, 0, 0 - 10, 150>>

\* one entry of state['stage_states']; present = the dict holds an entry for
\* the stage; status "absent" and start_time / end_time 0 stand for a key
\* the entry does not hold
EmptyStageState ==
  [present |-> FALSE, status |-> "absent", progress |-> 0, start_time |-> 0,
   end_time |-> 0, assignee |-> None, deliverables_status |-> {}]

\* get_stage_state: an absent status reads as PENDING
StatusOf(ms, stage_id) ==
  IF ms.stage_states[stage_id].status = "absent" THEN "pending"
  ELSE ms.stage_states[stage_id].status

create_default_state(mode) ==
  LET stgs == get_stages_for_mode(mode)
  IN  [flow_mode |-> mode,
       current_stage |-> IF Len(stgs) > 0 THEN stgs[1].id ELSE None,
       stage_states |-> [s \in MMStageArgs |-> EmptyStageState]]

get_stage_info_by_id(mode, stage_id) ==
  LET stgs == get_stages_for_mode(mode)
  IN  IF \E i \in 1..Len(stgs) : stgs[i].id = stage_id
      THEN stgs[CHOOSE i \in 1..Len(stgs) : stgs[i].id = stage_id]
      ELSE StageInfo(None, None, <<>>, <<>>)

\* the timestamps update_stage_state sets on its own when kwargs carry a
\* status (t is the time of the call)
AutoStamp(e, status, t) ==
  IF status = "in_progress" /\ e.start_time = 0 THEN [e EXCEPT !.start_time = t]
  ELSE IF status = "completed" THEN [e EXCEPT !.end_time = t, !.progress = 100]
  ELSE e

\* update_stage_state(stage_id, status=..., [start_time=...], [assignee=...],
\* [end_time=...], [progress=...]): kw is the record of the keywords passed
update_stage_state(ms, stage_id, kw, t) ==
  LET e0 == ms.stage_states[stage_id]
      e1 == [f \in DOMAIN e0 |-> IF f = "present" THEN TRUE
                                 ELSE IF f \in DOMAIN kw THEN kw[f] ELSE e0[f]]
      e2 == IF "status" \in DOMAIN kw THEN AutoStamp(e1, kw.status, t) ELSE e1
  IN  [ms EXCEPT !.stage_states[stage_id] = e2]

check_dependencies_first(ms, stage_id) ==
  LET info == get_stage_info_by_id(ms.flow_mode, stage_id)
  IN  \/ info.id = None
      \/ Len(info.dependencies) = 0
      \/ StatusOf(ms, info.dependencies[1]) = "completed"

check_dependencies(ms, stage_id) ==
  LET info == get_stage_info_by_id(ms.flow_mode, stage_id)
  IN  \/ info.id = None
      \/ Len(info.dependencies) = 0
      \/ \A i \in 1..Len(info.dependencies) :
            StatusOf(ms, info.dependencies[i]) = "completed"

MMResult(ok, ms) == [ok |-> ok, state |-> ms]

start_stage(ms, stage_id, assignee, t) ==
  IF ~check_dependencies(ms, stage_id) THEN MMResult(FALSE, ms)
  ELSE MMResult(TRUE,
         [update_stage_state(ms, stage_id,
             [status |-> "in_progress", start_time |-> t, assignee |-> assignee], t)
          EXCEPT !.current_stage = stage_id])

mm_complete_stage(ms, stage_id, t) ==
  LET info == get_stage_info_by_id(ms.flow_mode, stage_id)
      done == update_stage_state(ms, stage_id,
                 [status |-> "completed", end_time |-> t, progress |-> 100], t)
  IN  IF info.id = None THEN MMResult(FALSE, ms)
      ELSE IF info.next_stage # None
           THEN MMResult(TRUE, [done EXCEPT !.current_stage = info.next_stage])
           ELSE MMResult(TRUE, done)

\* _update_stage_progress: the share of the declared deliverables marked done
mm_update_stage_progress(ms, stage_id, t) ==
  LET info  == get_stage_info_by_id(ms.flow_mode, stage_id)
      total == Len(info.deliverables)
      doneN == Cardinality({i \in 1..total :
                 info.deliverables[i] \in ms.stage_states[stage_id].deliverables_status})
  IN  IF info.id = None \/ total = 0 THEN ms
      ELSE update_stage_state(ms, stage_id, [progress |-> (doneN * 100) \div total], t)

update_deliverable_status(ms, stage_id, deliverable, completed, t) ==
  LET cur == ms.stage_states[stage_id].deliverables_status
      upd == IF completed THEN cur \cup {deliverable} ELSE cur \ {deliverable}
  IN  mm_update_stage_progress(
        update_stage_state(ms, stage_id, [deliverables_status |-> upd], t), stage_id, t)

\* AceFlowCLI.cmd_progress: the progress the user types is stored as it is
cmd_progress(ms, stage_id, progress, t) ==
  update_stage_state(ms, stage_id, [progress |-> progress], t)

\* ---- mode switching
\* the positions of stage_ids whose stage has an entry in stage_states
\* (`if stage_state:`)
ValidSources(ms, stage_ids) ==
  {i \in 1..Len(stage_ids) : ms.stage_states[stage_ids[i]].present}

RECURSIVE SumProgress(_, _, _)
SumProgress(ms, stage_ids, idxs) ==
  IF idxs = {} THEN 0
  ELSE LET i == CHOOSE j \in idxs : TRUE
       IN  ms.stage_states[stage_ids[i]].progress + SumProgress(ms, stage_ids, idxs \ {i})

\* _merge_stage_states: stage ids without an entry are passed over
merge_stage_states(ms, stage_ids) ==
  LET valid         == ValidSources(ms, stage_ids)
      all_completed == \A i \in valid : ms.stage_states[stage_ids[i]].status = "completed"
      started       == {i \in valid : ms.stage_states[stage_ids[i]].start_time # 0}
      ended         == {i \in valid : ms.stage_states[stage_ids[i]].end_time # 0}
      first_started == CHOOSE i \in started : \A j \in started : i <= j
      last_ended    == CHOOSE i \in ended : \A j \in ended : j <= i
  IN  [present    |-> TRUE,
       status     |-> IF all_completed /\ valid # {} THEN "completed"
                      ELSE IF valid # {} THEN "in_progress" ELSE "pending",
       progress   |-> IF all_completed /\ valid # {} THEN 100
                      ELSE IF valid # {}
                           THEN SumProgress(ms, stage_ids, valid) \div Cardinality(valid)
                           ELSE 0,
       start_time |-> IF started # {} THEN ms.stage_states[stage_ids[first_started]].start_time
                      ELSE 0,
       end_time   |-> IF ended # {} THEN ms.stage_states[stage_ids[last_ended]].end_time
                      ELSE 0,
       assignee   |-> None,
       deliverables_status |->
          UNION {ms.stage_states[stage_ids[i]].deliverables_status : i \in valid}]

\* the first stage of the list whose entry is not COMPLETED, or dflt
FirstNotCompleted(stgs, states, dflt) ==
  LET open == {i \in 1..Len(stgs) : states[stgs[i].id].status # "completed"}
  IN  IF open = {} THEN dflt
      ELSE stgs[CHOOSE i \in open : \A j \in open : i <= j].id

\* _string_similarity: Jaccard index of the two word sets as <<numerator,
\* denominator>>; 0 when either string is empty
string_similarity(s1, s2) ==
  IF s1 = {} \/ s2 = {} THEN <<0, 1>>
  ELSE <<Cardinality(s1 \cap s2), Cardinality(s1 \cup s2)>>

\* _calculate_stage_similarity: (name_similarity + desc_similarity) / 2 as
\* the fraction <<numerator, denominator>>
calculate_stage_similarity(id1, id2) ==
  LET n == string_similarity(stage_name(id1), stage_name(id2))
      e == string_similarity(stage_description(id1), stage_description(id2))
  IN  <<n[1] * e[2] + e[1] * n[2], 2 * n[2] * e[2]>>

ScoreGreater(a, b) == a[1] * b[2] > b[1] * a[2]

\* the loop over old_stages: the first stage whose score is the greatest and
\* above 0, as its position in old_stages, or 0
best_match(old_stages, new_id) ==
  LET score(i) == calculate_stage_similarity(old_stages[i].id, new_id)
      cand == {i \in 1..Len(old_stages) :
                 /\ score(i)[1] > 0
                 /\ \A j \in 1..Len(old_stages) : ~ScoreGreater(score(j), score(i))
                 /\ \A j \in 1..(i - 1) : ScoreGreater(score(i), score(j))}
  IN  IF cand = {} THEN 0 ELSE CHOOSE i \in cand : TRUE

smart_migrate_state(ms, old_mode, new_mode) ==
  LET old_stages == get_stages_for_mode(old_mode)
      new_stages == get_stages_for_mode(new_mode)
      adopted(new_id) ==
        LET b == best_match(old_stages, new_id)
        IN  IF b # 0
               /\ ScoreGreater(calculate_stage_similarity(old_stages[b].id, new_id), <<1, 2>>)
               /\ ms.stage_states[old_stages[b].id].present
            THEN ms.stage_states[old_stages[b].id]
            ELSE EmptyStageState
      new_stage_states == [s \in MMStageArgs |->
                             IF s \in MMStageIds(new_mode) THEN adopted(s)
                             ELSE EmptyStageState]
  IN  [ms EXCEPT !.stage_states = new_stage_states,
                 !.current_stage =
                    IF Len(new_stages) > 0
                    THEN FirstNotCompleted(new_stages, new_stage_states, new_stages[1].id)
                    ELSE ms.current_stage]

migrate_state(ms, old_mode, new_mode) ==
  LET mapping    == mapping_rules(old_mode, new_mode)
      new_stages == get_stages_for_mode(new_mode)
      mapped(rule) ==
        IF Len(rule.sources) > 1 THEN merge_stage_states(ms, rule.sources)
        ELSE ms.stage_states[rule.sources[1]]
      new_stage_states == [s \in MMStageArgs |->
                             IF \E i \in 1..Len(mapping) : mapping[i].target = s
                             THEN mapped(mapping[CHOOSE i \in 1..Len(mapping) :
                                                    mapping[i].target = s])
                             ELSE EmptyStageState]
  IN  IF ~has_mapping(old_mode, new_mode) THEN smart_migrate_state(ms, old_mode, new_mode)
      ELSE [ms EXCEPT !.stage_states = new_stage_states,
                      !.current_stage =
                         IF Len(new_stages) > 0
                         THEN FirstNotCompleted(new_stages, new_stage_states,
                                                new_stages[Len(new_stages)].id)
                         ELSE ms.current_stage]

\* switch_flow_mode: the default state is created while self.current_mode
\* still is the old mode
switch_flow_mode(ms, new_mode, preserve_progress) ==
  IF new_mode = ms.flow_mode THEN MMResult(TRUE, ms)
  ELSE IF preserve_progress
       THEN MMResult(TRUE, [migrate_state(ms, ms.flow_mode, new_mode)
                              EXCEPT !.flow_mode = new_mode])
       ELSE MMResult(TRUE, [create_default_state(ms.flow_mode)
                              EXCEPT !.flow_mode = new_mode])

\* ==================================== PATEOASStateEngine and its Enhanced twin
PEStages == <<"S1", "S2", "S3", "S4", "S5", "S6", "S7", "S8">>

PEStageIds == Range(PEStages)

PEStageArgs == PEStageIds \cup {"bogus"}

\* stage_definitions[stage_id]['next_stage']
pe_next_stage(stage_id) == SuccessorOf(PEStages, stage_id)

\* stage_definitions[stage_id]['dependencies'] (Enhanced)
pe_dependencies(stage_id) ==
  IF IndexOf(PEStages, stage_id) >= 1 THEN {PEStages[IndexOf(PEStages, stage_id)]} ELSE {}

initialize_state ==
  [current_stage |-> "S1",
   stage_status |-> [s \in PEStageIds |-> IF s = "S1" THEN "in_progress" ELSE "not_started"],
   progress |-> [s \in PEStageIds |-> 0]]

PEResult(ok, ps) == [ok |-> ok, state |-> ps]

\* the assignments both engines make once the checks have passed
pe_apply_progress(ps, stage_id, progress) ==
  LET nxt == pe_next_stage(stage_id)
      p1  == [ps EXCEPT !.progress[stage_id] = progress, !.current_stage = stage_id]
  IN  IF progress >= 100
      THEN IF nxt # None
           THEN [p1 EXCEPT !.stage_status[stage_id] = "completed",
                           !.current_stage = nxt,
                           !.stage_status[nxt] = "in_progress"]
           ELSE [p1 EXCEPT !.stage_status[stage_id] = "completed"]
      ELSE [p1 EXCEPT !.stage_status[stage_id] = "in_progress"]

update_stage_progress(ps, stage_id, progress) ==
  IF stage_id \notin DOMAIN ps.progress THEN PEResult(FALSE, ps)   \* ValueError
  ELSE PEResult(TRUE, pe_apply_progress(ps, stage_id, progress))

\* os.path.exists(output_path) and os.path.getsize(output_path) > 0
validate_stage_output(outs, stage_id) == stage_id \in outs

\* the dependency check of the Enhanced engine is commented out in the source
update_stage_progress_enhanced(ps, outs, stage_id, progress) ==
  IF stage_id \notin DOMAIN ps.progress THEN PEResult(FALSE, ps)   \* ValueError
  ELSE IF progress >= 100 /\ ~validate_stage_output(outs, stage_id)
       THEN PEResult(FALSE, ps)                                    \* ValueError
  ELSE PEResult(TRUE, pe_apply_progress(ps, stage_id, progress))

revert_to_stage(ps, target_stage) ==
  LET current_index == IndexOf(PEStages, target_stage)
      later == {PEStages[i] : i \in (current_index + 2)..Len(PEStages)}
  IN  IF target_stage \notin PEStageIds THEN PEResult(FALSE, ps)   \* ValueError
      ELSE PEResult(TRUE,
             [current_stage |-> target_stage,
              stage_status |-> [s \in DOMAIN ps.stage_status |->
                 IF s = target_stage THEN "in_progress"
                 ELSE IF s \in later THEN "not_started" ELSE ps.stage_status[s]],
              progress |-> [s \in PEStageIds |->
                 IF s \in later THEN 0 ELSE ps.progress[s]]])

\* aceflow_cli_enhanced.py revert-stage: the command assigns the two keys
\* itself and checks nothing, so an unknown target becomes a new key of
\* stage_status
revert_stage(ps, target_stage) ==
  PEResult(TRUE,
    [ps EXCEPT !.current_stage = target_stage,
               !.stage_status = [s \in DOMAIN ps.stage_status \cup {target_stage} |->
                                   IF s = target_stage THEN "in_progress"
                                   ELSE ps.stage_status[s]]])

\* state.get('iterations', {}).get('1', {}).get(dep, {}).get('progress', 0):
\* initialize_state writes no 'iterations' key and no operation adds one, so
\* the chain of .get defaults ends in 0
iterations_progress(ps, dep) == 0

\* PATEOASStateEngineEnhanced.check_dependencies (stage_id a defined stage)
check_dependencies_enhanced(ps, stage_id) ==
  \A dep \in pe_dependencies(stage_id) :
    LET status   == IF dep \in DOMAIN ps.stage_status THEN ps.stage_status[dep]
                    ELSE "not_started"
        progress == iterations_progress(ps, dep)
    IN  ~(status # "completed" \/ progress < 100)

\* ---- abnormalities and the navigation advisor (the same code in both
\* PATEOAS engines).  An id is 'ABN-' followed by the time of the call to
\* the second; the model keeps the second.
record_abnormality(abn_list, stage_id, issue_description, severity, t) ==
  Append(abn_list, [id |-> t, stage_id |-> stage_id,
                    description |-> issue_description,
                    severity |-> severity, status |-> "unresolved"])

\* for abn in state['abnormalities']: the first one carrying the id
resolve_abnormality(abn_list, abnormality_id) ==
  LET hits == {i \in 1..Len(abn_list) : abn_list[i].id = abnormality_id}
  IN  IF hits = {} THEN [ok |-> FALSE, abnormalities |-> abn_list]
      ELSE LET i == CHOOSE k \in hits : \A j \in hits : k <= j
           IN  [ok |-> TRUE,
                abnormalities |-> [abn_list EXCEPT ![i].status = "resolved"]]

\* [a for a in state['abnormalities'] if unresolved and of the current stage]
unresolved_of(abn_list, stage_id) ==
  LET RECURSIVE pick(_)
      pick(s) == IF s = << >> THEN << >>
                 ELSE IF Head(s).status = "unresolved" /\ Head(s).stage_id = stage_id
                      THEN <<Head(s)>> \o pick(Tail(s))
                      ELSE pick(Tail(s))
  IN  pick(abn_list)

Suggestion(type, priority, about) == [type |-> type, priority |-> priority, about |-> about]

get_navigation_suggestion_first(ps, abn_list) ==
  LET current_stage == ps.current_stage
      abnormalities == unresolved_of(abn_list, current_stage)
  IN  IF Len(abnormalities) > 0
      THEN <<Suggestion("abnormality",
                        IF abnormalities[1].severity = "high" THEN "high" ELSE "medium",
                        abnormalities[1].id)>>
      ELSE << >>

get_navigation_suggestion(ps, abn_list) ==
  LET current_stage == ps.current_stage
      progress      == IF current_stage \in DOMAIN ps.progress
                       THEN ps.progress[current_stage] ELSE 0
      abnormalities == unresolved_of(abn_list, current_stage)
  IN  IF Len(abnormalities) > 0
      THEN [i \in 1..Len(abnormalities) |->
              Suggestion("abnormality",
                         IF abnormalities[i].severity = "high" THEN "high" ELSE "medium",
                         abnormalities[i].id)]
      ELSE IF progress < 100
           THEN <<Suggestion("progress", "medium", 0)>>
           ELSE IF pe_next_stage(current_stage) # None
                THEN <<Suggestion("transition", "high", 0)>>
                ELSE << >>

\* =============================================================== web API
\* api/auth.py.  A token is what jwt.encode signs: the claims and the key.
SECRET_KEY == "your-secret-key"
ACCESS_TOKEN_EXPIRE_MINUTES == 30

\* a request without an Authorization header
NoToken == [sub |-> None, exp |-> 0, key |-> None]

\* create_access_token(data, expires_delta) called at time t; `sub` is
\* data.get("sub"), and expires_delta, in minutes, is 0 when the argument
\* is left out (`if expires_delta:` treats both alike)
create_access_token(sub, expires_delta, t) ==
  [sub |-> sub,
   exp |-> IF expires_delta # 0 THEN t + expires_delta ELSE t + 15,
   key |-> SECRET_KEY]

\* jwt.decode(token, SECRET_KEY, algorithms=[ALGORITHM]) does not raise
jwt_decodes(token, t) == token.key = SECRET_KEY /\ token.exp > t

\* User.get_by_username(username) is not None
get_by_username(table, username) == username \in table

\* the status of the answer of the dependency get_current_user, 200 when
\* it returns a user.  OAuth2PasswordBearer answers 401 itself when the
\* request has no Authorization header.
get_current_user(token, table, t) ==
  IF token = NoToken THEN 401
  ELSE IF ~jwt_decodes(token, t) THEN 401
  ELSE IF token.sub = None THEN 401
  ELSE IF ~get_by_username(table, token.sub) THEN 401
  ELSE 200

\* main.py mounts api_router under /api and routes.py mounts auth.router
\* under /auth
ProtectedPath == "/api/auth/protected"

\* GET path: the status the application answers with
get_protected(path, token, table, t) ==
  IF path # ProtectedPath THEN 404
  ELSE get_current_user(token, table, t)

\* ---- ghost bookkeeping
\* rep: the operation before this one succeeded and was the same call
Last(op, arg, val, ok) ==
  [op |-> op, arg |-> arg, val |-> val, ok |-> ok,
   rep |-> (last.ok /\ last.op = op /\ last.arg = arg /\ last.val = val)]

\* the run of in-order completions continues only with a successful
\* complete of the next stage of the order
OrdRunAfterComplete(stage, ok) ==
  LET stage_order == get_stage_order(project_mode)
  IN  IF ~ok THEN ordRun
      ELSE IF ordRun >= 0 /\ ordRun < Len(stage_order) /\ stage_order[ordRun + 1] = stage
           THEN ordRun + 1
           ELSE 0 - 1

\* the documents of the programs that do not drive the project
NoStage == /\ project_mode = None
           /\ flow = create_project_state(None)
           /\ progress_exists = FALSE
           /\ stages = << >>
NoMM == mm = create_default_state(None)
NoPE == pe = initialize_state
\* initialize_state: 'abnormalities': []
NoAbn == abns = << >> /\ sec = 1 /\ nav = << >>
\* no operation under way in either process
Idle == [pc |-> "idle", op |-> None, local |-> [pe |-> initialize_state, abns |-> << >>],
         overlap |-> FALSE]
NoApi == /\ users = {}
         /\ clock = 0
         /\ response = [path |-> None, token |-> NoToken, status |-> 0]
NoAux == /\ procs = [p \in {1, 2} |-> Idle] /\ readable = TRUE /\ corrupt = FALSE
         /\ NoApi

\* ---- Init: a freshly initialised project
InitStage ==
  /\ engine = "stage"
  /\ project_mode \in Modes
  /\ \E enhanced \in BOOLEAN :
       IF enhanced
       THEN /\ flow = create_project_state_enhanced(project_mode)
            /\ progress_exists = FALSE
            /\ stages = << >>
       ELSE /\ flow = create_project_state(project_mode)
            /\ progress_exists = TRUE
            /\ stages = initialize_stage_progress(project_mode)
  /\ NoMM /\ NoPE
  /\ outputs = {}

\* no state file yet: MultiModeStateEngine starts from _create_default_state
InitMM ==
  /\ engine = "mm"
  /\ mm = create_default_state("minimal")
  /\ outputs \in {{}, {"P"}}
  /\ NoStage /\ NoPE

\* no state file yet: both PATEOAS engines start from initialize_state
InitPE ==
  /\ engine \in {"plain", "enhanced"}
  /\ pe = initialize_state
  /\ outputs \in (IF engine = "plain" THEN {{}, {"S1"}}
                  ELSE {{}, {"S1", "S2"}, PEStageIds})
  /\ NoStage /\ NoMM

Init ==
  /\ nops = 0
  /\ last = [op |-> "init", arg |-> None, val |-> 0, ok |-> TRUE, rep |-> FALSE]
  /\ ordRun = 0
  /\ NoAbn /\ NoAux
  /\ (InitStage \/ InitMM \/ InitPE)

\* ---- stage CLI actions: one invocation each
\* the stage argument of a command: an id one of the two documents knows
\* (the mode's order, the keys of stage_progress.json) or an unknown id
StageArgs == Range(get_stage_order(project_mode)) \cup DOMAIN stages \cup {"bogus"}

Apply(r) ==
  /\ flow' = r.flow
  /\ stages' = r.stages
  /\ ordRun' = IF r.flow = flow /\ r.stages = stages THEN ordRun ELSE 0 - 1
  /\ UNCHANGED <<project_mode, progress_exists>>

DoNext ==
  \E force \in BOOLEAN, answer \in BOOLEAN :
    LET r == next_stage(project_mode, flow, progress_exists, stages, force, answer)
    IN  /\ Apply(r)
        /\ last' = Last("next", None, 0, r.ok)

DoGoto ==
  \E target \in StageArgs, force \in BOOLEAN, answer \in BOOLEAN :
    LET r == goto_stage(project_mode, flow, progress_exists, stages, target, force, answer)
    IN  /\ Apply(r)
        /\ last' = Last("goto", target, 0, r.ok)

CompleteStep(stage, force, answer) ==
  LET r == complete_stage(project_mode, flow, progress_exists, stages, stage, force, answer)
  IN  /\ flow' = r.flow
      /\ stages' = r.stages
      /\ ordRun' = OrdRunAfterComplete(stage, r.ok)
      /\ UNCHANGED <<project_mode, progress_exists>>

DoComplete ==
  \E stage \in StageArgs, force \in BOOLEAN, answer \in BOOLEAN :
    /\ CompleteStep(stage, force, answer)
    /\ last' = Last("complete", stage, 0,
                    complete_stage(project_mode, flow, progress_exists, stages,
                                   stage, force, answer).ok)

DoReset ==
  \E target \in StageArgs, force \in BOOLEAN, answer \in BOOLEAN :
    LET r == reset_stage(project_mode, flow, progress_exists, stages, target, force, answer)
    IN  /\ Apply(r)
        /\ last' = Last("reset", target, 0, r.ok)

DoModeChange ==
  \E new_mode \in ImportedModes :
    /\ project_mode' = new_mode
    /\ flow' = update_project_mode(flow, new_mode)
    /\ last' = Last("mode", new_mode, 0, TRUE)
    /\ ordRun' = 0 - 1
    /\ UNCHANGED <<progress_exists, stages>>

Tick == nops < MaxOps /\ nops' = nops + 1

StageFrame == engine = "stage" /\ UNCHANGED <<engine, mm, pe, outputs, abnVars, auxVars>>

\* ---- MultiModeStateEngine actions: one CLI command each
MMFrame == engine = "mm" /\ UNCHANGED <<engine, ordRun, stageVars, pe, outputs, abnVars, auxVars>>

MMStart ==
  \E stage_id \in MMStageArgsOf(mm.flow_mode), assignee \in Assignees :
    LET r == start_stage(mm, stage_id, assignee, now)
    IN  /\ mm' = r.state
        /\ last' = Last("start", stage_id, 0, r.ok)

MMComplete ==
  \E stage_id \in MMStageArgsOf(mm.flow_mode) :
    LET r == mm_complete_stage(mm, stage_id, now)
    IN  /\ mm' = r.state
        /\ last' = Last("complete", stage_id, 100, r.ok)

MMProgress ==
  \E stage_id \in MMStageArgsOf(mm.flow_mode), i \in DOMAIN ProgressArgs :
    /\ mm' = cmd_progress(mm, stage_id, ProgressArgs[i], now)
    /\ last' = Last("progress", stage_id, ProgressArgs[i], TRUE)

MMDeliverable ==
  \E stage_id \in MMStageIds(mm.flow_mode), completed \in BOOLEAN :
    \E d \in Range(get_stage_info_by_id(mm.flow_mode, stage_id).deliverables) :
      /\ mm' = update_deliverable_status(mm, stage_id, d, completed, now)
      /\ last' = Last("deliverable", stage_id, 0, TRUE)

\* cmd_mode: --force or the confirmation prompt, then --reset or not; the
\* value recorded for the call is 1 when progress is preserved
MMSwitch ==
  \E new_mode \in FlowModes, preserve \in BOOLEAN, confirmed \in BOOLEAN :
    LET r == switch_flow_mode(mm, new_mode, preserve)
    IN  IF new_mode # mm.flow_mode /\ ~confirmed
        THEN /\ mm' = mm
             /\ last' = Last("mode", new_mode, IF preserve THEN 1 ELSE 0, FALSE)
        ELSE /\ mm' = r.state
             /\ last' = Last("mode", new_mode, IF preserve THEN 1 ELSE 0, r.ok)

\* ---- PATEOAS actions
PEFrame == UNCHANGED <<engine, ordRun, stageVars, mm, outputs, auxVars>>

PEUpdate ==
  /\ engine = "plain"
  /\ \E stage_id \in PEStageArgs, i \in DOMAIN ProgressArgs :
       LET r == update_stage_progress(pe, stage_id, ProgressArgs[i])
       IN  /\ pe' = r.state
           /\ last' = Last("update", stage_id, ProgressArgs[i], r.ok)

PEUpdateEnhanced ==
  /\ engine = "enhanced"
  /\ \E stage_id \in PEStageArgs, i \in DOMAIN ProgressArgs :
       LET r == update_stage_progress_enhanced(pe, outputs, stage_id, ProgressArgs[i])
       IN  /\ pe' = r.state
           /\ last' = Last("update", stage_id, ProgressArgs[i], r.ok)

PERevert ==
  /\ engine = "enhanced"
  /\ \E target \in PEStageArgs :
       LET r == revert_to_stage(pe, target)
       IN  /\ pe' = r.state
           /\ last' = Last("revert", target, 0, r.ok)

PERevertStage ==
  /\ engine = "enhanced"
  /\ \E target \in PEStageArgs :
       LET r == revert_stage(pe, target)
       IN  /\ pe' = r.state
           /\ last' = Last("revert_stage", target, 0, r.ok)

StageNext == Tick /\ StageFrame /\ (DoNext \/ DoGoto \/ DoComplete \/ DoReset \/ DoModeChange)
MMNext    == Tick /\ MMFrame /\ (MMStart \/ MMComplete \/ MMProgress \/ MMDeliverable \/ MMSwitch)
PENext    == Tick /\ PEFrame /\ UNCHANGED abnVars /\ (PEUpdate \/ PEUpdateEnhanced \/ PERevert \/ PERevertStage)

Next == StageNext \/ MMNext \/ PENext
Spec == Init /\ [][Next]_vars

\* one program at a time
InitStageOnly == Init /\ engine = "stage"
InitMMOnly    == Init /\ engine = "mm"
InitPEOnly    == Init /\ engine \in {"plain", "enhanced"}

\* the stage CLI used for nothing but `complete`, in any order and as often
\* as the user likes; the operation count and `last` are not kept here
CompleteOnly ==
  /\ StageFrame
  /\ \E stage \in StageArgs, force \in BOOLEAN, answer \in BOOLEAN :
       CompleteStep(stage, force, answer)
  /\ UNCHANGED <<nops, last>>
SpecComplete == InitStageOnly /\ [][CompleteOnly]_vars

SpecStage == InitStageOnly /\ [][StageNext]_vars
SpecMM    == InitMMOnly /\ [][MMNext]_vars
SpecPE    == InitPEOnly /\ [][PENext]_vars

\* MultiModeStateEngine on a project whose config.yaml names the minimal or
\* the standard mode
InitMig ==
  /\ nops = 0
  /\ last = [op |-> "init", arg |-> None, val |-> 0, ok |-> TRUE, rep |-> FALSE]
  /\ ordRun = 0
  /\ engine = "mm"
  /\ \E mode \in {"minimal", "standard"} : mm = create_default_state(mode)
  /\ outputs = {}
  /\ NoStage /\ NoPE /\ NoAbn /\ NoAux
SpecMig == InitMig /\ [][MMNext]_vars

\* the Enhanced engine used for progress updates and dependency checks
\* (request_ai_suggestion calls check_dependencies and prints the answer)
PECheckDependencies ==
  /\ engine = "enhanced"
  /\ \E stage_id \in PEStageIds :
       /\ last' = Last("check_dependencies", stage_id, 0,
                       check_dependencies_enhanced(pe, stage_id))
       /\ pe' = pe

InitDeps == Init /\ engine = "enhanced"
DepsNext == Tick /\ PEFrame /\ UNCHANGED abnVars /\ (PEUpdateEnhanced \/ PECheckDependencies)
SpecDeps == InitDeps /\ [][DepsNext]_vars

\* the stage CLI used for nothing but `next`, from a fresh project
NextOnly ==
  /\ nops < MaxNexts /\ nops' = nops + 1
  /\ StageFrame
  /\ DoNext
SpecNextOnly == InitStageOnly /\ [][NextOnly]_vars

\* ---- the PATEOAS engines with abnormalities and the navigation advisor
Severities == {"high", "medium"}

\* the stages named in this part: the first, the second and the last one
AbnStageArgs == {"S1", "S2", "S8"}
AbnProgressArgs == {50, 100}

\* two calls can fall into the same second of the wall clock, or not
AbnRecord ==
  \E stage_id \in AbnStageArgs, severity \in Severities, elapsed \in {0, 1} :
    /\ sec' = sec + elapsed
    /\ abns' = record_abnormality(abns, stage_id, "issue", severity, sec')
    /\ last' = Last("record", stage_id, sec', TRUE)
    /\ UNCHANGED <<pe, nav>>

\* the id asked for: one that was handed out, or one that never was
AbnResolve ==
  \E abnormality_id \in {abns[i].id : i \in 1..Len(abns)} \cup {0} :
    LET r == resolve_abnormality(abns, abnormality_id)
    IN  /\ abns' = r.abnormalities
        /\ last' = Last("resolve", None, abnormality_id, r.ok)
        /\ UNCHANGED <<pe, sec, nav>>

AbnNavigate ==
  /\ nav' = get_navigation_suggestion(pe, abns)
  /\ last' = Last("navigate", None, 0, TRUE)
  /\ UNCHANGED <<pe, abns, sec>>

AbnUpdate ==
  \E stage_id \in AbnStageArgs, progress \in AbnProgressArgs :
    LET r == IF engine = "plain" THEN update_stage_progress(pe, stage_id, progress)
             ELSE update_stage_progress_enhanced(pe, outputs, stage_id, progress)
    IN  /\ pe' = r.state
        /\ last' = Last("update", stage_id, progress, r.ok)
        /\ UNCHANGED abnVars

InitAbn ==
  /\ Init
  /\ engine \in {"plain", "enhanced"}
  /\ outputs = (IF engine = "plain" THEN {} ELSE PEStageIds)
AbnNext == Tick /\ PEFrame /\ (AbnUpdate \/ AbnRecord \/ AbnResolve \/ AbnNavigate)
SpecAbn == InitAbn /\ [][AbnNext]_vars

\* ---- two processes on one project.  An operation of PATEOASStateEngine
\* is get_current_state (open, json.load), the change on the loaded copy,
\* and save_state (open(.., 'w'), which truncates the file, then json.dump);
\* nothing locks the file, so the steps of two processes interleave.
Procs == {1, 2}

\* the operation process p runs: it records an abnormality described in
\* its own words, or it reports progress on a stage of its own
RaceOps == {"record", "update"}
DescriptionOf(p) == IF p = 1 THEN "a1" ELSE "a2"
StageOf(p) == IF p = 1 THEN "S1" ELSE "S2"

\* the document the operation leaves in memory, from the loaded copy
RaceApply(p, op, doc) ==
  IF op = "record"
  THEN [doc EXCEPT !.abns = record_abnormality(doc.abns, "S1", DescriptionOf(p),
                                               "medium", sec)]
  ELSE [doc EXCEPT !.pe = update_stage_progress(doc.pe, StageOf(p), 50).state]

\* get_current_state: json.load raises on a truncated or garbled file
RaceLoad(p) ==
  /\ procs[p].pc = "idle"
  /\ \E op \in RaceOps :
       procs' = [procs EXCEPT ![p] =
                   IF readable
                   THEN [pc |-> "loaded", op |-> op,
                         local |-> [pe |-> pe, abns |-> abns], overlap |-> FALSE]
                   ELSE [pc |-> "failed", op |-> op,
                         local |-> procs[p].local, overlap |-> FALSE]]
  /\ UNCHANGED <<pe, abns, readable>>

\* save_state, open(self.state_file, 'w'): the file is empty from here on
RaceOpen(p) ==
  /\ procs[p].pc = "loaded"
  /\ procs' = [procs EXCEPT ![p].pc = "writing"]
  /\ readable' = FALSE
  /\ UNCHANGED <<pe, abns>>

\* save_state, json.dump and close: the document is written from offset 0.
\* When the other process wrote while this one had the file open, what is
\* left behind the end of this document may remain, and the file is this
\* document or no JSON document at all.
RaceDump(p) ==
  /\ procs[p].pc = "writing"
  /\ LET doc == RaceApply(p, procs[p].op, procs[p].local)
     IN  /\ pe' = doc.pe
         /\ abns' = doc.abns
  /\ readable' \in (IF procs[p].overlap THEN BOOLEAN ELSE {TRUE})
  /\ procs' = [q \in Procs |->
                 IF q = p THEN [procs[p] EXCEPT !.pc = "done"]
                 ELSE IF procs[q].pc = "writing" THEN [procs[q] EXCEPT !.overlap = TRUE]
                 ELSE procs[q]]

InitRace == Init /\ engine = "plain" /\ outputs = {}
RaceNext ==
  /\ \E p \in Procs : RaceLoad(p) \/ RaceOpen(p) \/ RaceDump(p)
  /\ UNCHANGED <<engine, nops, last, ordRun, stageVars, mm, outputs, sec, nav, corrupt,
                  apiVars>>
SpecRace == InitRace /\ [][RaceNext]_vars

\* ---- a state file that cannot be parsed.  While `corrupt` holds, `mm`
\* and `flow` keep what the file said before it was damaged; a command that
\* saves replaces the damaged file with the document it saves.
\* MultiModeStateEngine._load_state: any exception is logged and the
\* default state of the configured mode is used instead
load_state(ms, bad) == IF bad THEN create_default_state(ms.flow_mode) ELSE ms

MMStartOnDisk ==
  \E stage_id \in MMStageArgsOf(mm.flow_mode), assignee \in Assignees :
    LET r == start_stage(load_state(mm, corrupt), stage_id, assignee, now)
    IN  /\ mm' = (IF r.ok THEN r.state ELSE mm)
        /\ corrupt' = (corrupt /\ ~r.ok)
        /\ last' = Last("start", stage_id, 0, r.ok)

MMCompleteOnDisk ==
  \E stage_id \in MMStageArgsOf(mm.flow_mode) :
    LET r == mm_complete_stage(load_state(mm, corrupt), stage_id, now)
    IN  /\ mm' = (IF r.ok THEN r.state ELSE mm)
        /\ corrupt' = (corrupt /\ ~r.ok)
        /\ last' = Last("complete", stage_id, 100, r.ok)

MMProgressOnDisk ==
  \E stage_id \in MMStageArgsOf(mm.flow_mode), i \in DOMAIN ProgressArgs :
    /\ mm' = cmd_progress(load_state(mm, corrupt), stage_id, ProgressArgs[i], now)
    /\ corrupt' = FALSE
    /\ last' = Last("progress", stage_id, ProgressArgs[i], TRUE)

\* AceFlowStage.load_current_state returns None on a JSONDecodeError and
\* every command returns False before it reads or writes anything else
StageCommands == {"next", "goto", "complete", "reset"}
StageOnCorrupt ==
  /\ engine = "stage" /\ corrupt
  /\ \E command \in StageCommands : last' = Last(command, None, 0, FALSE)
  /\ UNCHANGED <<ordRun, stageVars, mm, corrupt>>

\* the file is damaged from outside (a torn write, a bad disk, an editor)
Garble ==
  /\ ~corrupt /\ corrupt' = TRUE
  /\ last' = Last("garble", None, 0, TRUE)
  /\ UNCHANGED <<ordRun, stageVars, mm>>

InitCorrupt == Init /\ engine \in {"stage", "mm"}
CorruptNext ==
  \/ ~corrupt /\ StageNext
  \/ /\ Tick
     /\ UNCHANGED <<engine, pe, outputs, abnVars, procs, readable, apiVars>>
     /\ \/ Garble
        \/ StageOnCorrupt
        \/ /\ engine = "mm"
           /\ UNCHANGED <<ordRun, stageVars>>
           /\ (MMStartOnDisk \/ MMCompleteOnDisk \/ MMProgressOnDisk)
SpecCorrupt == InitCorrupt /\ [][CorruptNext]_vars

\* ---- the web API: users register, time passes, clients send GET requests
Usernames == {"testuser", "alice"}
RequestPaths == {ProtectedPath, "/auth/protected"}

\* the tokens a client can hold at time t: made by create_access_token at
\* some earlier time (by login, with ACCESS_TOKEN_EXPIRE_MINUTES, or called
\* directly as tests/test_auth.py does), or signed with another key
TokensAt(t) ==
  {create_access_token(sub, delta, at) :
     sub \in Usernames \cup {None}, delta \in {0, ACCESS_TOKEN_EXPIRE_MINUTES},
     at \in {0, t}}
  \cup {[sub |-> "testuser", exp |-> t + 15, key |-> "another-key"]}

ApiRegister ==
  \E username \in Usernames :
    /\ users' = users \cup {username}
    /\ last' = Last("register", username, 0, username \notin users)
    /\ UNCHANGED <<clock, response>>

\* twenty minutes pass
ApiWait ==
  /\ clock' = clock + 20
  /\ last' = Last("wait", None, 0, TRUE)
  /\ UNCHANGED <<users, response>>

ApiRequest ==
  \E path \in RequestPaths, token \in TokensAt(clock) \cup {NoToken} :
    LET status == get_protected(path, token, users, clock)
    IN  /\ response' = [path |-> path, token |-> token, status |-> status]
        /\ last' = Last("request", path, status, status = 200)
        /\ UNCHANGED <<users, clock>>

InitApi ==
  /\ engine = "api"
  /\ nops = 0
  /\ last = [op |-> "init", arg |-> None, val |-> 0, ok |-> TRUE, rep |-> FALSE]
  /\ ordRun = 0
  /\ outputs = {}
  /\ NoStage /\ NoMM /\ NoPE /\ NoAbn /\ NoAux
ApiNext ==
  /\ Tick
  /\ UNCHANGED <<engine, ordRun, stageVars, mm, pe, outputs, abnVars,
                 procs, readable, corrupt>>
  /\ (ApiRegister \/ ApiWait \/ ApiRequest)
SpecApi == InitApi /\ [][ApiNext]_vars

\* ================================================================= claims
NoDuplicates(seq) == \A i, j \in 1..Len(seq) : i # j => seq[i] # seq[j]

StageOrder == get_stage_order(project_mode)

\* C1: in the stage CLI, whenever the project's mode has stages, the stored
\* flow.progress_percentage is floor(100 * |flow.completed_stages| / number
\* of stages of the mode), after every next, goto, complete and reset.
C1_ProgressIsFloor ==
  (engine = "stage" /\ Len(StageOrder) > 0) =>
     flow.progress_percentage = (100 * Len(flow.completed_stages)) \div Len(StageOrder)

\* two of the six standard stages are completed and 33 is stored
C1_Witness ==
  /\ engine = "stage"
  /\ project_mode = "standard"
  /\ Len(flow.completed_stages) = 2
  /\ flow.progress_percentage = 33

\* C2: flow.completed_stages holds no id twice and only ids of the stage
\* list of the project's current mode.
C2_CompletedValid ==
  engine = "stage" =>
     /\ NoDuplicates(flow.completed_stages)
     /\ Range(flow.completed_stages) \subseteq Range(StageOrder)

\* C3: the current stage is unset (null or the 'initialized' sentinel) or an
\* id of the current mode's stage list, in the stage CLI and in
\* MultiModeStateEngine alike.
C3_CurrentValid ==
  /\ engine = "stage" =>
        flow.current_stage \in ({None, "initialized"} \cup Range(StageOrder))
  /\ engine = "mm" =>
        mm.current_stage \in ({None} \cup MMStageIds(mm.flow_mode))

\* C4: every stage whose status is COMPLETED has progress exactly 100.
C4_CompletedHas100 ==
  /\ engine = "mm" =>
        \A s \in MMStageArgs :
           StatusOf(mm, s) = "completed" => mm.stage_states[s].progress = 100
  /\ engine \in {"plain", "enhanced"} =>
        \A s \in PEStageIds :
           pe.stage_status[s] = "completed" => pe.progress[s] = 100

\* C5: every stage whose status is IN_PROGRESS has all of its declared
\* dependencies COMPLETED.
C5_InProgressDepsMet ==
  /\ engine = "enhanced" =>
        \A s \in PEStageIds :
           pe.stage_status[s] = "in_progress" =>
              \A d \in pe_dependencies(s) : pe.stage_status[d] = "completed"
  /\ engine = "mm" =>
        \A s \in MMStageIds(mm.flow_mode) :
           StatusOf(mm, s) = "in_progress" =>
              \A d \in Range(get_stage_info_by_id(mm.flow_mode, s).dependencies) :
                 StatusOf(mm, d) = "completed"

UnmetDependencies(ms, stage_id) ==
  {d \in Range(get_stage_info_by_id(ms.flow_mode, stage_id).dependencies) :
     StatusOf(ms, d) # "completed"}

\* C6: a start of a stage that has at least one declared dependency not
\* COMPLETED returns failure and leaves the state document (status, start
\* time, assignee of every stage and the current stage) unchanged.
C6_StartGate ==
  [][ (engine = "mm" /\ nops' # nops /\ last'.op = "start"
         /\ UnmetDependencies(mm, last'.arg) # {})
      => (~last'.ok /\ mm' = mm) ]_vars

\* start(R) has just failed with P completed and D not: two declared
\* dependencies, exactly one unmet
C6_Witness ==
  /\ engine = "mm"
  /\ last.op = "start" /\ last.arg = "R" /\ ~last.ok
  /\ StatusOf(mm, "P") = "completed"
  /\ StatusOf(mm, "D") # "completed"

\* C7: no stage becomes COMPLETED unless the output-artifact checker reports
\* that its required output exists and is non-empty.
C7_OutputGate ==
  [][ /\ engine = "mm" =>
           \A s \in MMStageArgs :
              (StatusOf(mm, s) # "completed" /\ StatusOf(mm', s) = "completed")
                 => validate_stage_output(outputs, s)
      /\ engine \in {"plain", "enhanced"} =>
           \A s \in PEStageIds :
              (pe.stage_status[s] # "completed" /\ pe'.stage_status[s] = "completed")
                 => validate_stage_output(outputs, s) ]_vars

\* C8: from a fresh project, once every stage of the mode has been completed
\* in the mode's order (and nothing else was done), progress_percentage is
\* 100 and completed_stages holds exactly the mode's stages, each once.
C8_AllCompleted ==
  (engine = "stage" /\ ordRun = Len(StageOrder)) =>
     /\ flow.progress_percentage = 100
     /\ Len(flow.completed_stages) = Len(StageOrder)
     /\ Range(flow.completed_stages) = Range(StageOrder)
     /\ NoDuplicates(flow.completed_stages)

\* the eight stages of the complete mode were completed in order
C8_Witness ==
  /\ engine = "stage"
  /\ project_mode = "complete"
  /\ ordRun = 8

\* C9: a successful complete of a stage that has a successor makes the
\* successor the current stage with status IN_PROGRESS; in minimal mode,
\* complete(analysis), complete(planning) from a fresh project yield
\* completed_stages = [analysis, planning], progress_percentage = 50 and
\* current_stage = implementation.
C9_AutoAdvance ==
  engine = "stage" =>
     /\ (last.op = "complete" /\ last.ok /\ SuccessorOf(StageOrder, last.arg) # None) =>
           /\ flow.current_stage = SuccessorOf(StageOrder, last.arg)
           /\ SuccessorOf(StageOrder, last.arg) \in DOMAIN stages
           /\ stages[SuccessorOf(StageOrder, last.arg)].status = "in_progress"
     /\ (project_mode = "minimal" /\ ordRun = 2) =>
           /\ flow.completed_stages = <<"analysis", "planning">>
           /\ flow.progress_percentage = 50
           /\ flow.current_stage = "implementation"

\* what the idempotence claim compares: the current stage, the completed
\* list and the status and progress of every stage (timestamps left out)
View ==
  << flow, stages,
     mm.current_stage,
     [s \in MMStageArgs |-> <<mm.stage_states[s].status, mm.stage_states[s].progress>>],
     pe >>

\* the call just made sets a stage to 100 and succeeded
IsSetTo100(l) ==
  /\ l.ok
  /\ \/ l.op = "complete"
     \/ l.op = "update" /\ l.val = 100

\* C10: when a successful complete(stage) / update_stage_progress(stage, 100)
\* is followed at once by the same successful call, the second call leaves
\* the current stage, the completed list and every stage's status and
\* progress as the first call left them.
C10_Idempotent ==
  [][ (nops' # nops /\ IsSetTo100(last') /\ last'.rep) => View' = View ]_vars

\* the same set-to-100 call has just succeeded twice in a row on a stage
\* that has a successor
C10_Witness ==
  /\ IsSetTo100(last) /\ last.rep
  /\ \/ engine = "stage" /\ last.arg \in Range(flow.completed_stages)
     \/ engine = "plain" /\ pe_next_stage(last.arg) # None
     \/ engine = "mm" /\ last.arg = "P"

\* the call just made is a progress update of stage l.arg to l.val
IsProgressUpdate(l) == l.op \in {"update", "progress"}

\* C11: a progress update with a value below 100 on a stage that is already
\* COMPLETED fails and leaves the whole state unchanged (the stage stays
\* COMPLETED with progress 100, the current stage is not changed).
C11_NoRegress ==
  [][ ( /\ nops' # nops /\ IsProgressUpdate(last') /\ last'.val < 100
        /\ \/ /\ engine \in {"plain", "enhanced"}
              /\ last'.arg \in PEStageIds
              /\ pe.stage_status[last'.arg] = "completed"
           \/ /\ engine = "mm"
              /\ StatusOf(mm, last'.arg) = "completed" )
      => (~last'.ok /\ pe' = pe /\ mm' = mm) ]_vars

\* C12: once a stage is COMPLETED, no later progress update or complete call
\* on any stage changes that stage's status to a non-COMPLETED value.
C12_CompletionMonotonic ==
  [][ ( /\ nops' # nops
        /\ engine \in {"plain", "enhanced"}
        /\ (IsProgressUpdate(last') \/ last'.op = "complete") )
      => \A s \in PEStageIds :
            pe.stage_status[s] = "completed" => pe'.stage_status[s] = "completed" ]_vars

ProgressInRange ==
  /\ \A s \in PEStageIds : pe.progress[s] \in 0..100
  /\ \A s \in DOMAIN mm.stage_states : mm.stage_states[s].progress \in 0..100

\* C13: a progress update with a value outside 0..100 fails and leaves the
\* state unchanged, and no stage ever stores a progress value outside 0..100.
C13_ProgressChecked ==
  [][ /\ (nops' # nops /\ IsProgressUpdate(last') /\ last'.val \notin 0..100)
         => (~last'.ok /\ pe' = pe /\ mm' = mm)
      /\ ProgressInRange' ]_vars

\* ---- stage CLI: goto and reset
Pending == [status |-> "pending", progress |-> 0]

\* the stages of the order before / after the stage at 0-based index idx
StagesBefore(stage_order, idx) == {stage_order[i] : i \in 1..idx}
StagesAfter(stage_order, idx) == {stage_order[i] : i \in (idx + 2)..Len(stage_order)}

JustDid(op) == engine = "stage" /\ nops' # nops /\ last'.op = op

\* C14: goto never alters completed_stages or progress_percentage; when it
\* succeeds current_stage is the target and next_stage the target's successor
\* in the mode's order; a goto to the stage that is already current succeeds
\* and changes nothing; a goto to an id outside the mode's stage list fails
\* and changes nothing.
C14_GotoFrame ==
  [][ JustDid("goto") =>
        /\ flow'.completed_stages = flow.completed_stages
        /\ flow'.progress_percentage = flow.progress_percentage
        /\ last'.ok =>
              /\ flow'.current_stage = last'.arg
              /\ flow'.next_stage = SuccessorOf(StageOrder, last'.arg)
        /\ (progress_exists /\ last'.arg \in Range(StageOrder)
              /\ flow.current_stage = last'.arg) =>
              (last'.ok /\ flow' = flow /\ stages' = stages)
        /\ last'.arg \notin Range(StageOrder) =>
              (~last'.ok /\ flow' = flow /\ stages' = stages) ]_vars

\* minimal mode: analysis was entered, then goto validation succeeded, and
\* analysis is not in completed_stages
C14_Witness ==
  /\ engine = "stage" /\ project_mode = "minimal"
  /\ last.op = "goto" /\ last.ok /\ last.arg = "validation"
  /\ flow.current_stage = "validation"
  /\ stages["analysis"].status = "in_progress"
  /\ flow.completed_stages = <<>>

\* C15: a successful reset(target) sets current_stage to target, sets every
\* stage after target that stage_progress.json holds to pending with
\* progress 0, reduces completed_stages to its former entries that precede
\* target in the mode's order (relative order kept), recomputes
\* progress_percentage from the reduced list, and leaves the entry of every
\* stage before target as it was.
C15_ResetEffect ==
  [][ (JustDid("reset") /\ last'.ok) =>
        LET idx == IndexOf(StageOrder, last'.arg)
        IN  /\ flow'.current_stage = last'.arg
            /\ DOMAIN stages' = DOMAIN stages
            /\ \A s \in StagesAfter(StageOrder, idx) \cap DOMAIN stages :
                  stages'[s] = Pending
            /\ flow'.completed_stages =
                  FilterSeq(flow.completed_stages, StagesBefore(StageOrder, idx))
            /\ flow'.progress_percentage =
                  (100 * Len(flow'.completed_stages)) \div Len(StageOrder)
            /\ \A s \in StagesBefore(StageOrder, idx) \cap DOMAIN stages :
                  stages'[s] = stages[s] ]_vars

\* minimal mode: analysis and planning were completed, then reset(planning)
\* left [analysis] and 25 percent
C15_Witness ==
  /\ engine = "stage" /\ project_mode = "minimal"
  /\ last.op = "reset" /\ last.ok /\ last.arg = "planning"
  /\ flow.current_stage = "planning"
  /\ flow.completed_stages = <<"analysis">>
  /\ flow.progress_percentage = 25
  /\ stages["planning"].status = "completed"
  /\ stages["analysis"].status = "completed"

\* C16 as stated: after a successful reset(target) the target and every
\* stage after it are pending with progress 0, completed_stages holds only
\* stages before the target and current_stage is the target.
C16_TargetCleared ==
  (engine = "stage" /\ last.op = "reset" /\ last.ok) =>
     LET idx == IndexOf(StageOrder, last.arg)
     IN  /\ flow.current_stage = last.arg
         /\ Range(flow.completed_stages) \subseteq StagesBefore(StageOrder, idx)
         /\ \A s \in (StagesAfter(StageOrder, idx) \cup {last.arg}) \cap DOMAIN stages :
               stages[s] = Pending

\* C16 amended: after a successful reset(target) every stage after the target
\* is pending with progress 0, the entries of the target itself and of every
\* stage before it are untouched, completed_stages holds only stages before
\* the target and current_stage is the target.
C16_TargetKept ==
  [][ (JustDid("reset") /\ last'.ok) =>
        LET idx == IndexOf(StageOrder, last'.arg)
        IN  /\ flow'.current_stage = last'.arg
            /\ Range(flow'.completed_stages) \subseteq StagesBefore(StageOrder, idx)
            /\ \A s \in StagesAfter(StageOrder, idx) \cap DOMAIN stages' :
                  stages'[s] = Pending
            /\ \A s \in (StagesBefore(StageOrder, idx) \cup {last'.arg}) \cap DOMAIN stages :
                  stages'[s] = stages[s] ]_vars

\* minimal mode: planning was completed and reset(planning) left its entry
\* completed while dropping it from completed_stages
C16_Witness ==
  /\ engine = "stage" /\ project_mode = "minimal"
  /\ last.op = "reset" /\ last.ok /\ last.arg = "planning"
  /\ flow.current_stage = "planning"
  /\ stages["planning"] = [status |-> "completed", progress |-> 100]
  /\ flow.completed_stages = <<>>

\* C17: a successful revert(target) makes target the current stage and
\* leaves the status and progress of every stage ordered after target as
\* they were, through the engine's revert_to_stage and through the CLI's
\* revert-stage alike.
C17_RevertKeepsLater ==
  [][ ( /\ engine = "enhanced" /\ nops' # nops
        /\ last'.op \in {"revert", "revert_stage"} /\ last'.ok )
      => /\ pe'.current_stage = last'.arg
         /\ \A s \in StagesAfter(PEStages, IndexOf(PEStages, last'.arg)) :
               /\ pe'.stage_status[s] = pe.stage_status[s]
               /\ pe'.progress[s] = pe.progress[s] ]_vars

\* ---- MultiModeStateEngine: mode switching
\* the call just made switched to a different mode and succeeded
JustSwitched(preserve) ==
  /\ engine = "mm" /\ nops' # nops
  /\ last'.op = "mode" /\ last'.ok
  /\ last'.arg # mm.flow_mode
  /\ last'.val = (IF preserve THEN 1 ELSE 0)

\* C18: a switch to a different mode without preserving progress yields a
\* fresh default state of the target mode: the recorded mode is the target
\* mode, the current stage is the first stage of the target mode's list and
\* no stage has an entry any more.
C18_FreshState ==
  [][ JustSwitched(FALSE) =>
        /\ mm'.flow_mode = last'.arg
        /\ mm'.current_stage = get_stages_for_mode(last'.arg)[1].id
        /\ \A s \in MMStageArgs : ~mm'.stage_states[s].present ]_vars

\* the status the merge of the listed source stages must give: COMPLETED
\* only if every listed source is COMPLETED, else IN_PROGRESS if some source
\* has non-zero progress, else PENDING
MergedStatus(ms, sources) ==
  IF \A i \in 1..Len(sources) : ms.stage_states[sources[i]].status = "completed"
  THEN "completed"
  ELSE IF \E i \in 1..Len(sources) : ms.stage_states[sources[i]].progress # 0
       THEN "in_progress"
       ELSE "pending"

\* C19: after a progress-preserving switch by mapping table, every target
\* stage whose rule lists several source stages has the status the claim
\* gives for the merge of those sources.
C19_MergedStatus ==
  [][ (JustSwitched(TRUE) /\ has_mapping(mm.flow_mode, last'.arg)) =>
        \A i \in 1..Len(mapping_rules(mm.flow_mode, last'.arg)) :
           LET rule == mapping_rules(mm.flow_mode, last'.arg)[i]
           IN  Len(rule.sources) > 1 =>
                  mm'.stage_states[rule.target].status = MergedStatus(mm, rule.sources) ]_vars

\* C20: after a progress-preserving switch, by mapping table or by the
\* similarity fallback, the current stage is the first stage of the target
\* mode's order whose status is not COMPLETED, or the last stage of the
\* target mode when every target stage is COMPLETED.
C20_CurrentAfterMigration ==
  [][ JustSwitched(TRUE) =>
        LET new_stages == get_stages_for_mode(last'.arg)
        IN  mm'.current_stage =
              FirstNotCompleted(new_stages, mm'.stage_states,
                                new_stages[Len(new_stages)].id) ]_vars

\* C24: a successful start(stage) leaves the stage IN_PROGRESS and current,
\* and a stage that already had a start time keeps that start time.
C24_StartKeepsStartTime ==
  [][ (engine = "mm" /\ nops' # nops /\ last'.op = "start" /\ last'.ok)
      => /\ StatusOf(mm', last'.arg) = "in_progress"
         /\ mm'.current_stage = last'.arg
         /\ (mm.stage_states[last'.arg].start_time # 0
               => mm'.stage_states[last'.arg].start_time
                    = mm.stage_states[last'.arg].start_time) ]_vars

\* C26: in the stage CLI the completed list and the progress record agree:
\* a stage is in flow.completed_stages exactly when its entry of
\* stage_progress.json has status 'completed' and progress 100.
C26_ListMatchesRecord ==
  (engine = "stage" /\ progress_exists)
    => \A s \in DOMAIN stages :
         (s \in Range(flow.completed_stages))
           <=> (stages[s].status = "completed" /\ stages[s].progress = 100)

\* C27: flow.next_stage is the successor of flow.current_stage in the
\* mode's stage order: the first stage while current_stage is
\* 'initialized', null on the last stage.
C27_NextIsSuccessor ==
  engine = "stage"
    => flow.next_stage =
         (IF flow.current_stage = "initialized"
          THEN (IF Len(StageOrder) > 0 THEN StageOrder[1] ELSE None)
          ELSE SuccessorOf(StageOrder, flow.current_stage))

\* C30: check_dependencies(stage) of the Enhanced engine answers true
\* exactly when every declared dependency of the stage is completed.
DependenciesCompleted(ps, stage_id) ==
  \A dep \in pe_dependencies(stage_id) : ps.stage_status[dep] = "completed"

C30_DependencyCheck ==
  (engine = "enhanced" /\ last.op = "check_dependencies")
    => (last.ok <=> DependenciesCompleted(pe, last.arg))

\* C28: `next` on the last stage (flow.next_stage is null) returns success
\* and changes neither document, and a run of nothing but `next` from a
\* fresh project keeps progress_percentage below 100.
C28_NextStopsAtLast ==
  /\ [](engine = "stage" => flow.progress_percentage < 100)
  /\ [][ (engine = "stage" /\ nops' # nops /\ flow.next_stage = None)
         => (last'.ok /\ flow' = flow /\ stages' = stages) ]_vars

C28_Witness ==
  /\ engine = "stage" /\ project_mode = "complete"
  /\ last.op = "next" /\ last.ok /\ last.rep
  /\ flow.current_stage = "s8_summary_report" /\ flow.next_stage = None
  /\ Len(flow.completed_stages) = 7

\* C21 (as stated): with an unresolved abnormality recorded for the current
\* stage the advisor returns exactly one suggestion, of type 'abnormality'.
UnresolvedHere == unresolved_of(abns, pe.current_stage)

C21_OneSuggestion ==
  (last.op = "navigate" /\ Len(UnresolvedHere) > 0)
    => (Len(nav) = 1 /\ nav[1].type = "abnormality")

\* C21 (amended): with an unresolved abnormality recorded for the current
\* stage the advisor returns one suggestion of type 'abnormality' for each
\* of them, whatever the progress, and no suggestion of another type.
C21_OnePerAbnormality ==
  (last.op = "navigate" /\ Len(UnresolvedHere) > 0)
    => /\ Len(nav) = Len(UnresolvedHere)
       /\ \A i \in 1..Len(nav) :
            nav[i].type = "abnormality" /\ nav[i].about = UnresolvedHere[i].id

C21_Witness ==
  /\ last.op = "navigate"
  /\ Len(UnresolvedHere) = 2
  /\ Len(nav) = 2 /\ nav[1].type = "abnormality" /\ nav[2].type = "abnormality"

\* C29: the ids of the recorded abnormalities are pairwise different, and
\* every unresolved abnormality is the one resolve_abnormality(its id)
\* marks resolved.
C29_UniqueIds ==
  /\ \A i, j \in 1..Len(abns) : i # j => abns[i].id # abns[j].id
  /\ \A i \in 1..Len(abns) :
       abns[i].status = "unresolved"
         => resolve_abnormality(abns, abns[i].id).abnormalities[i].status = "resolved"

\* C22: an operation holds the state document for its whole
\* read-modify-write (no two processes are between their load and the end
\* of their save at once), and when both processes are through the
\* document is readable and shows both operations.
Reflected(p) ==
  IF procs[p].op = "record"
  THEN \E i \in 1..Len(abns) : abns[i].description = DescriptionOf(p)
  ELSE pe.progress[StageOf(p)] = 50

InFlight(p) == procs[p].pc \in {"loaded", "writing"}

C22_NoLostUpdate ==
  /\ ~(InFlight(1) /\ InFlight(2))
  /\ (\A p \in Procs : procs[p].pc \in {"done", "failed"})
       => /\ readable
          /\ \A p \in Procs : procs[p].pc = "done" /\ Reflected(p)

\* C23: a command issued while the state document cannot be loaded fails
\* and leaves the file as it is: still the damaged document, nothing saved
\* in its place.
C23_CorruptIsFatal ==
  [][ (corrupt /\ nops' # nops)
      => (~last'.ok /\ corrupt' /\ mm' = mm /\ stageVars' = stageVars) ]_vars

\* C25: a request to the protected route with a token made by
\* create_access_token for a subject, correctly signed and not expired, is
\* answered 200, and a request to it without a token is answered 401.
C25_ProtectedRoute ==
  (engine = "api" /\ last.op = "request" /\ response.path = ProtectedPath)
    => /\ (response.token # NoToken /\ response.token.sub # None
             /\ jwt_decodes(response.token, clock))
            => response.status = 200
       /\ response.token = NoToken => response.status = 401

====
